---- MODULE Spec2Model ----
(***************************************************************************)
(* The retrieval-augmented question answering core of TDS-virtual-ta:      *)
(*   app/vector_store.py  loads the (index, metadata) snapshot at import,  *)
(*   app/_init_.py        questions(): embed, search, look up, complete,   *)
(*   app/main.py          get_answer(): the POST /api/ endpoint.           *)
(* and the listing loop of the forum scraper:                              *)
(*   app/discourse-scraper.py  scrape_topics_from_category, scrape_topic.  *)
(* Strings are sequences of one-character strings; positions returned by   *)
(* the index are 0-based as in Python, TLA+ sequences are 1-based.         *)
(***************************************************************************)
EXTENDS Integers, Sequences, FiniteSets, TLC

VARIABLES snapshot_file, service, index, metadata, req, sc

vars == <<snapshot_file, service, index, metadata, req, sc>>

(***************************************************************************)
(* Bounds of the model.                                                    *)
(***************************************************************************)
MaxVectors == 2
MaxRecords == 2
MaxTopK == 2
MaxLimit == 2
MaxTopics == 2
MaxPosts == 2
MaxCount == 3

(***************************************************************************)
(* Program constants.                                                      *)
(***************************************************************************)
DefaultTopK == 5
TopReferences == 2
PageCap == 100

Requests == {"r1", "r2"}

\* one-dimensional stand-ins for the 384-dimensional embedding vectors
Coords == {0, 1}

Questions == { <<>>, <<" ">>, <<"a">> }

\* chunk records as the ingestion pipeline may have pickled them: "text" is
\* always there, "url" and "title" are read with .get() and may be missing
ChunkPool ==
    { [text |-> "x", url |-> "A", title |-> "T1"],
      [text |-> "y", url |-> "A"],
      [text |-> "z", url |-> "B", title |-> "T3"] }

\* what the completion API may send back as the message content
CompletionTexts == { <<" ", "o", " ">> }

\* outcomes of one openai.ChatCompletion.create call
CompletionOutcomes ==
    [ok : {TRUE}, text : CompletionTexts, failure : {"none"}]
       \cup [ok : {FALSE}, text : {<<>>}, failure : {"timeout", "api_error"}]

SeqsUpTo(S, n) == UNION { [1..m -> S] : m \in 0..n }

(***************************************************************************)
(* Pure helpers, computed as the code computes them.                       *)
(***************************************************************************)

\* str.strip(): drop leading and trailing whitespace
RECURSIVE LStrip(_)
LStrip(s) == IF s # <<>> /\ Head(s) = " " THEN LStrip(Tail(s)) ELSE s

RECURSIVE RStrip(_)
RStrip(s) == IF s # <<>> /\ s[Len(s)] = " " THEN RStrip(SubSeq(s, 1, Len(s) - 1)) ELSE s

strip(s) == RStrip(LStrip(s))

IsBlank(s) == strip(s) = <<>>

\* dict.get(key, default)
get(rec, key, default) == IF key \in DOMAIN rec THEN rec[key] ELSE default

\* embedder.encode([question])[0]: a deterministic function of the text
encode(question) == Len(SelectSeq(question, LAMBDA c : c # " ")) % 2

\* squared L2 distance of IndexFlatL2
Dist(v, q) == (v - q) * (v - q)

\* position i is a better neighbour of q than position j (ties: lower position)
Closer(vs, q, i, j) ==
    \/ Dist(vs[i + 1], q) < Dist(vs[j + 1], q)
    \/ Dist(vs[i + 1], q) = Dist(vs[j + 1], q) /\ i < j

Rank(vs, q, i) == Cardinality({ j \in 0..(Len(vs) - 1) : Closer(vs, q, j, i) })

\* index.search(question_embedding, top_k): the labels I[0], always top_k of
\* them, best first, filled with -1 where the index has no more neighbours
search_farthest_first(vs, q, k) ==
    [ n \in 1..k |-> IF n <= Len(vs)
                     THEN CHOOSE i \in 0..(Len(vs) - 1) : Rank(vs, q, i) = Len(vs) - n
                     ELSE -1 ]

search(vs, q, k) ==
    [ n \in 1..k |-> IF n <= Len(vs)
                     THEN CHOOSE i \in 0..(Len(vs) - 1) : Rank(vs, q, i) = n - 1
                     ELSE -1 ]

\* metadata[i] on a Python list: a negative i counts from the end
InRange(md, i) == -Len(md) <= i /\ i < Len(md)

getitem(md, i) == IF i >= 0 THEN md[i + 1] ELSE md[Len(md) + i + 1]

\* "\n\n".join(context_chunks)
RECURSIVE join(_)
join(chunks) ==
    IF chunks = <<>> THEN <<>>
    ELSE IF Len(chunks) = 1 THEN <<chunks[1]>>
    ELSE <<chunks[1], "\n\n">> \o join(Tail(chunks))

\* the f-string of questions()
build_prompt(context, question) ==
    <<"You are a helpful virtual TA for the TDS course. Use the context below to answer the question:",
      "Context:">> \o context \o <<"Question:">> \o question \o <<"Answer:">>

link(rec) == [url |-> get(rec, "url", ""), text |-> get(rec, "title", "Reference")]

(***************************************************************************)
(* app.vector.search_similar(question): "should return list of (url,       *)
(* text) tuples".  The Retriever contract: reject a blank question, embed, *)
(* search (at most top_k positions, none invented), skip positions the     *)
(* metadata store does not hold.                                           *)
(***************************************************************************)
Min(a, b) == IF a < b THEN a ELSE b

index_search_contract(vs, q, k) ==
    [ n \in 1..Min(k, Len(vs)) |-> CHOOSE i \in 0..(Len(vs) - 1) : Rank(vs, q, i) = n - 1 ]

search_similar(vs, md, question) ==
    IF IsBlank(question)
    THEN [error |-> "InvalidQuery", refs |-> <<>>]
    ELSE LET pos == index_search_contract(vs, encode(question), DefaultTopK)
             held == SelectSeq(pos, LAMBDA i : i < Len(md))
         IN [error |-> "none",
             refs |-> [ n \in 1..Len(held) |->
                          <<link(md[held[n] + 1]).url, link(md[held[n] + 1]).text>> ]]

(***************************************************************************)
(* State.                                                                  *)
(***************************************************************************)
NoResponse == [kind |-> "none", answer |-> <<>>, links |-> <<>>, error |-> "none"]

Answer(text, links) == [kind |-> "answer", answer |-> text, links |-> links, error |-> "none"]

Raised(exc) == [kind |-> "error", answer |-> <<>>, links |-> <<>>, error |-> exc]

NoOutcome == [ok |-> FALSE, text |-> <<>>, failure |-> "none"]

IdleReq ==
    [entry |-> "none", pc |-> "idle", question |-> <<>>, top_k |-> 0,
     emb |-> -1, I |-> <<>>, context_chunks |-> <<>>, urls |-> <<>>,
     prompt |-> <<>>, embed_calls |-> 0, search_calls |-> 0,
     completion_calls |-> 0, first_failure |-> "none", outcome |-> NoOutcome,
     response |-> NoResponse, steps |-> <<>>, retrieval_fault |-> "none"]

Snapshots ==
    [present : {TRUE}, index : SeqsUpTo(Coords, MaxVectors), metadata : SeqsUpTo(ChunkPool, MaxRecords)]
       \cup {[present |-> FALSE, index |-> <<>>, metadata |-> <<>>]}

\* the scraper is a separate offline program: not running while queries are served
NotScraping ==
    [pc |-> "idle", limit |-> 0, page |-> 0, scraped_count |-> 0, pending |-> 0,
     requests |-> 0, result |-> -1, exit |-> "none"]

Init ==
    /\ snapshot_file \in Snapshots
    /\ service = "boot"
    /\ index = <<>>
    /\ metadata = <<>>
    /\ req = [r \in Requests |-> IdleReq]
    /\ sc = NotScraping

(***************************************************************************)
(* vector_store.py: open("data/embeddings.pkl") raises when the file is    *)
(* missing and the import fails; otherwise the pair is unpickled as it is. *)
(***************************************************************************)
loaded_service(file) == IF file.present THEN "up" ELSE "crashed"

Load ==
    /\ service = "boot"
    /\ service' = loaded_service(snapshot_file)
    /\ index' = (IF snapshot_file.present THEN snapshot_file.index ELSE index)
    /\ metadata' = (IF snapshot_file.present THEN snapshot_file.metadata ELSE metadata)
    /\ UNCHANGED <<snapshot_file, req, sc>>

(***************************************************************************)
(* questions(question, top_k), one step per call it makes.                 *)
(***************************************************************************)
Call(r, question, top_k) ==
    /\ service = "up"
    /\ req[r].pc = "idle"
    /\ req' = [req EXCEPT ![r] = [IdleReq EXCEPT !.entry = "questions", !.pc = "embed",
                                                 !.question = question, !.top_k = top_k]]
    /\ UNCHANGED <<snapshot_file, service, index, metadata, sc>>

\* line 8
Embed(r) ==
    /\ req[r].pc = "embed"
    /\ req' = [req EXCEPT ![r].emb = encode(req[r].question),
                          ![r].embed_calls = @ + 1,
                          ![r].steps = Append(@, "embed"),
                          ![r].pc = "search"]
    /\ UNCHANGED <<snapshot_file, service, index, metadata, sc>>

\* line 9
Search(r) ==
    /\ req[r].pc = "search"
    /\ req' = [req EXCEPT ![r].I = search(index, req[r].emb, req[r].top_k),
                          ![r].search_calls = @ + 1,
                          ![r].steps = Append(@, "search"),
                          ![r].pc = "lookup"]
    /\ UNCHANGED <<snapshot_file, service, index, metadata, sc>>

\* lines 11-12 read metadata[i] and leave the list as it was
metadata_popped(md, I) == IF md = <<>> THEN md ELSE SubSeq(md, 1, Len(md) - 1)

metadata_after_lookup(md, I) == md

\* lines 11-12: the two comprehensions over I[0]
context_chunks_of(md, I) == [ n \in 1..Len(I) |-> getitem(md, I[n])["text"] ]

urls_of(md, I) == [ n \in 1..Len(I) |-> link(getitem(md, I[n])) ]

\* lines 11-24; a position outside the list raises IndexError out of questions()
Lookup(r) ==
    /\ req[r].pc = "lookup"
    /\ IF \A n \in 1..Len(req[r].I) : InRange(metadata, req[r].I[n])
       THEN req' = [req EXCEPT
                      ![r].context_chunks = context_chunks_of(metadata, req[r].I),
                      ![r].urls = urls_of(metadata, req[r].I),
                      ![r].prompt = build_prompt(join(context_chunks_of(metadata, req[r].I)),
                                                 req[r].question),
                      ![r].steps = Append(@, "lookup"),
                      ![r].pc = "complete"]
       ELSE req' = [req EXCEPT ![r].response = Raised("IndexError"),
                               ![r].steps = @ \o <<"lookup", "response">>,
                               ![r].pc = "done"]
    /\ metadata' = metadata_after_lookup(metadata, req[r].I)
    /\ UNCHANGED <<snapshot_file, service, index, sc>>

\* lines 26-35: one call, no except clause around it; the result dictionary
answer_placeholder(outcome, urls) ==
    IF outcome.ok THEN Answer(strip(outcome.text), urls) ELSE Answer(<<>>, urls)

questions_return(outcome, urls) ==
    IF outcome.ok THEN Answer(strip(outcome.text), urls) ELSE Raised("CompletionError")

Complete(r, outcome) ==
    /\ req[r].pc = "complete"
    /\ req' = [req EXCEPT
                 ![r].completion_calls = @ + 1,
                 ![r].first_failure = (IF req[r].completion_calls = 0 THEN outcome.failure ELSE @),
                 ![r].outcome = outcome,
                 ![r].response = questions_return(outcome, req[r].urls),
                 ![r].steps = @ \o <<"completion", "response">>,
                 ![r].pc = "done"]
    /\ UNCHANGED <<snapshot_file, service, index, metadata, sc>>

(***************************************************************************)
(* main.py get_answer(query): search_similar, then the mock answer, then   *)
(* the first two references as links.                                      *)
(***************************************************************************)
mock_answer(question) ==
    <<"Based on course discussion, the best approach for: '">> \o question
        \o <<"' is to use GPT-3.5 Turbo.">>

get_answer_return(question, references) ==
    Answer(mock_answer(question),
           [ n \in 1..Min(TopReferences, Len(references)) |->
               [url |-> references[n][1], text |-> references[n][2]] ])

GetAnswer(r, question) ==
    /\ service = "up"
    /\ req[r].pc = "idle"
    /\ LET found == search_similar(index, metadata, question)
           called == IF found.error = "none" THEN 1 ELSE 0
       IN req' = [req EXCEPT ![r] =
                    [IdleReq EXCEPT !.entry = "get_answer", !.pc = "done",
                                    !.question = question, !.top_k = DefaultTopK,
                                    !.embed_calls = called, !.search_calls = called,
                                    !.steps = IF found.error = "none"
                                              THEN <<"embed", "search", "lookup", "response">>
                                              ELSE <<"response">>,
                                    !.response = IF found.error = "none"
                                                 THEN get_answer_return(question, found.refs)
                                                 ELSE Raised(found.error)]]
    /\ UNCHANGED <<snapshot_file, service, index, metadata, sc>>

\* the caller has its response (or exception); the next request may come
Return(r) ==
    /\ req[r].pc = "done"
    /\ req' = [req EXCEPT ![r] = IdleReq]
    /\ UNCHANGED <<snapshot_file, service, index, metadata, sc>>

Next ==
    \/ Load
    \/ \E r \in Requests, q \in Questions, k \in 1..MaxTopK : Call(r, q, k)
    \/ \E r \in Requests : Embed(r)
    \/ \E r \in Requests : Search(r)
    \/ \E r \in Requests : Lookup(r)
    \/ \E r \in Requests, o \in CompletionOutcomes : Complete(r, o)
    \/ \E r \in Requests, q \in Questions : GetAnswer(r, q)
    \/ \E r \in Requests : Return(r)

Spec == Init /\ [][Next]_vars

(***************************************************************************)
(* Retrieval faults.  embedder.encode (line 8) or index.search (line 9)    *)
(* may raise; questions() has no try around them, so the exception leaves  *)
(* the call before line 26 is reached.  get_answer has no try around       *)
(* search_similar either (main.py line 34).                                *)
(***************************************************************************)
RetrievalFaults == {"EmbeddingError", "IndexUnavailable"}

embed_error_swallowed(rq) ==
    [rq EXCEPT !.embed_calls = @ + 1, !.steps = Append(@, "embed"),
               !.retrieval_fault = "EmbeddingError", !.emb = 0, !.pc = "search"]

embed_raised(rq) ==
    [rq EXCEPT !.embed_calls = @ + 1, !.steps = @ \o <<"embed", "response">>,
               !.retrieval_fault = "EmbeddingError",
               !.response = Raised("EmbeddingError"), !.pc = "done"]

search_raised(rq) ==
    [rq EXCEPT !.search_calls = @ + 1, !.steps = @ \o <<"search", "response">>,
               !.retrieval_fault = "IndexUnavailable",
               !.response = Raised("IndexUnavailable"), !.pc = "done"]

EmbedRaises(r) ==
    /\ req[r].pc = "embed"
    /\ req' = [req EXCEPT ![r] = embed_raised(req[r])]
    /\ UNCHANGED <<snapshot_file, service, index, metadata, sc>>

SearchRaises(r) ==
    /\ req[r].pc = "search"
    /\ req' = [req EXCEPT ![r] = search_raised(req[r])]
    /\ UNCHANGED <<snapshot_file, service, index, metadata, sc>>

\* search_similar raises on a question it did not reject
GetAnswerRaises(r, question, fault) ==
    /\ service = "up"
    /\ req[r].pc = "idle"
    /\ ~IsBlank(question)
    /\ req' = [req EXCEPT ![r] =
                 [IdleReq EXCEPT !.entry = "get_answer", !.pc = "done",
                                 !.question = question, !.top_k = DefaultTopK,
                                 !.embed_calls = 1,
                                 !.search_calls = IF fault = "IndexUnavailable" THEN 1 ELSE 0,
                                 !.steps = IF fault = "IndexUnavailable"
                                           THEN <<"embed", "search", "response">>
                                           ELSE <<"embed", "response">>,
                                 !.retrieval_fault = fault,
                                 !.response = Raised(fault)]]
    /\ UNCHANGED <<snapshot_file, service, index, metadata, sc>>

\* one request at a time, with the faults
RequestStep(r) ==
    \/ \E q \in Questions, k \in 1..MaxTopK : Call(r, q, k)
    \/ Embed(r)
    \/ EmbedRaises(r)
    \/ Search(r)
    \/ SearchRaises(r)
    \/ Lookup(r)
    \/ \E o \in CompletionOutcomes : Complete(r, o)
    \/ \E q \in Questions : GetAnswer(r, q)
    \/ \E q \in Questions, f \in RetrievalFaults : GetAnswerRaises(r, q, f)
    \/ Return(r)

NextFaults == Load \/ RequestStep("r1")

SpecFaults == Init /\ [][NextFaults]_vars

(***************************************************************************)
(* discourse-scraper.py: scrape_topics_from_category(slug, name, limit).   *)
(* sc.limit = 0 stands for limit=None and for limit=0, which line 207      *)
(* ("if limit and ...") treats alike.  sc.requests counts the listing      *)
(* pages requested, sc.pending the topics of the current page still to be  *)
(* visited by the for loop.                                                *)
(***************************************************************************)
\* what the forum may answer to one listing request: an error (transport,
\* status, JSON) or a page of topics
ListingAnswers ==
    [ok : {TRUE}, topics : 0..MaxTopics] \cup {[ok |-> FALSE, topics |-> 0]}

\* one topic of a listing page: whether its fields can be read at all, what the
\* date and keyword filters say, whether /t/<id>.json can be fetched, and for
\* each post whether processing it succeeds
Topics ==
    [wellformed : BOOLEAN, in_range : BOOLEAN, related : BOOLEAN, fetch_ok : BOOLEAN,
     posts : SeqsUpTo(BOOLEAN, MaxPosts)]

\* scrape_topic: the posts saved; 0 when the topic cannot be fetched
scrape_topic(topic) ==
    IF topic.fetch_ok THEN Len(SelectSeq(topic.posts, LAMBDA saved : saved)) ELSE 0

\* line 207
limit_exceeded(limit, scraped_count) == limit # 0 /\ scraped_count > limit

limit_reached(limit, scraped_count) == limit # 0 /\ scraped_count >= limit

\* lines 208 and 220, reached by return or by one of the breaks
returned(s, reason) ==
    [s EXCEPT !.pc = "returned", !.result = s.scraped_count, !.pending = 0, !.exit = reason]

\* lines 210-214
end_of_page(s) ==
    IF s.page + 1 > PageCap
    THEN returned([s EXCEPT !.page = @ + 1], "cap")
    ELSE [s EXCEPT !.page = @ + 1, !.pc = "fetch"]

\* the for loop moves on to the next topic, or is over
next_topic(s) ==
    IF s.pending > 1 THEN [s EXCEPT !.pending = @ - 1]
    ELSE end_of_page([s EXCEPT !.pending = 0])

InitScraper ==
    /\ snapshot_file = [present |-> FALSE, index |-> <<>>, metadata |-> <<>>]
    /\ service = "boot"
    /\ index = <<>>
    /\ metadata = <<>>
    /\ req = [r \in Requests |-> IdleReq]
    /\ \E l \in 0..MaxLimit : sc = [NotScraping EXCEPT !.pc = "fetch", !.limit = l]

\* lines 170-182 and the except of line 216
FetchPage(answer) ==
    /\ sc.pc = "fetch"
    /\ LET s == [sc EXCEPT !.requests = @ + 1]
       IN sc' = IF ~answer.ok THEN returned(s, "error")
                ELSE IF answer.topics = 0 THEN returned(s, "empty")
                ELSE [s EXCEPT !.pc = "topics", !.pending = answer.topics]
    /\ UNCHANGED <<snapshot_file, service, index, metadata, req>>

\* lines 186-214 for one topic of the page
VisitTopic(topic) ==
    /\ sc.pc = "topics"
    /\ sc.pending > 0
    /\ sc.scraped_count + scrape_topic(topic) <= MaxCount
    /\ sc' = IF ~topic.wellformed THEN returned(sc, "error")
             ELSE IF ~topic.in_range \/ ~topic.related THEN next_topic(sc)
             ELSE LET s == [sc EXCEPT !.scraped_count = @ + scrape_topic(topic)]
                  IN IF limit_reached(s.limit, s.scraped_count)
                     THEN returned(s, "limit")
                     ELSE next_topic(s)
    /\ UNCHANGED <<snapshot_file, service, index, metadata, req>>

NextScraper ==
    \/ \E a \in ListingAnswers : FetchPage(a)
    \/ \E t \in Topics : VisitTopic(t)

\* the loop is sequential code whose every request ends (the client has a
\* 30 second timeout), so a step that can be taken is taken
SpecScraper == InitScraper /\ [][NextScraper]_vars /\ WF_vars(NextScraper)

(***************************************************************************)
(* Vocabulary of the properties.                                           *)
(***************************************************************************)
\* the failures the retry rule calls transient
TransientFailures == {"timeout", "connection_reset"}

InQuestions(r) == req[r].entry = "questions"

\* questions() is past lines 11-12, which either raised or built both lists
PastLookup(r) ==
    InQuestions(r) /\ req[r].pc \in {"complete", "done"} /\ req[r].retrieval_fault = "none"

LookupRaised(r) == req[r].response.error = "IndexError"

LookedUp(r) == PastLookup(r) /\ ~LookupRaised(r)

Answered(r) == req[r].pc = "done" /\ req[r].response.kind = "answer"

Consistent == Len(index) = Len(metadata)

DistinctUrls(links) ==
    \A m, n \in DOMAIN links : m # n => links[m].url # links[n].url

\* keep the first link of every url, in order
RECURSIVE DedupByUrl(_)
DedupByUrl(links) ==
    IF links = <<>> THEN <<>>
    ELSE LET rest == DedupByUrl(SubSeq(links, 1, Len(links) - 1))
             last == links[Len(links)]
         IN IF \E n \in DOMAIN rest : rest[n].url = last.url THEN rest ELSE Append(rest, last)

\* the positions of I that name a chunk of the index, in the order of I
RealPositions(I) == SelectSeq(I, LAMBDA i : i >= 0)

(***************************************************************************)
(* C1: the links built by questions() hold no url twice: of the retrieved  *)
(* chunks sharing a url only the first is kept, in retrieval order.        *)
(***************************************************************************)
C1_LinksDedupedByUrl ==
    \A r \in Requests :
        (LookedUp(r) /\ RealPositions(req[r].I) = req[r].I) =>
            /\ DistinctUrls(req[r].urls)
            /\ req[r].urls = DedupByUrl([ n \in DOMAIN req[r].I |->
                                            link(metadata[req[r].I[n] + 1]) ])

(***************************************************************************)
(* C2: on a snapshot of N chunks a request with top_k > N gets exactly N   *)
(* results, without an error and without a chunk appearing twice; a "no    *)
(* neighbour" label never becomes a chunk record.                          *)
(***************************************************************************)
C2_SmallCorpusReturnsAll ==
    \A r \in Requests :
        (PastLookup(r) /\ Consistent /\ req[r].top_k > Len(index)) =>
            /\ ~LookupRaised(r)
            /\ Len(req[r].context_chunks) = Len(index)
            /\ Len(req[r].urls) = Len(index)

(***************************************************************************)
(* C3: one request invokes the completion API at most twice, a second time *)
(* only after a transient failure of the first, and a request whose last   *)
(* invocation failed ends with CompletionError and carries no Answer.      *)
(***************************************************************************)
C3_CompletionAtMostTwice ==
    \A r \in Requests :
        /\ req[r].completion_calls <= 2
        /\ req[r].completion_calls = 2 => req[r].first_failure \in TransientFailures
        /\ (req[r].pc = "done" /\ req[r].completion_calls >= 1 /\ ~req[r].outcome.ok) =>
               req[r].response = Raised("CompletionError")

C3_Witness ==
    \E r \in Requests :
        /\ req[r].pc = "done"
        /\ req[r].completion_calls = 1
        /\ req[r].outcome.failure = "timeout"
        /\ req[r].response.kind = "error"

(***************************************************************************)
(* C4: every Answer of the service carries the trimmed text of a           *)
(* successful completion call made with the prompt built from the          *)
(* retrieved context and the question.                                     *)
(***************************************************************************)
C4_AnswerComesFromCompletion ==
    \A r \in Requests :
        Answered(r) =>
            /\ req[r].completion_calls >= 1
            /\ req[r].outcome.ok
            /\ req[r].response.answer = strip(req[r].outcome.text)
            /\ req[r].prompt = build_prompt(join(req[r].context_chunks), req[r].question)

(***************************************************************************)
(* C5: a position the metadata store holds no record for is skipped: the   *)
(* request does not fail on it and the other results keep their order.     *)
(***************************************************************************)
C5_OutOfRangeSkipped ==
    \A r \in Requests :
        (PastLookup(r) /\ \E n \in DOMAIN req[r].I : req[r].I[n] >= Len(metadata)) =>
            /\ ~LookupRaised(r)
            /\ LET held == SelectSeq(req[r].I, LAMBDA i : i >= 0 /\ i < Len(metadata))
               IN req[r].context_chunks = [ n \in 1..Len(held) |-> metadata[held[n] + 1]["text"] ]

(***************************************************************************)
(* C6: an empty or whitespace-only question is rejected with InvalidQuery  *)
(* before the embedding provider, the vector index or the completion API   *)
(* is called, and the caller gets that error instead of an Answer.         *)
(***************************************************************************)
C6_BlankQuestionRejected ==
    \A r \in Requests :
        (req[r].pc # "idle" /\ IsBlank(req[r].question)) =>
            /\ req[r].embed_calls = 0
            /\ req[r].search_calls = 0
            /\ req[r].completion_calls = 0
            /\ req[r].pc = "done" => req[r].response = Raised("InvalidQuery")

(***************************************************************************)
(* C7: with the snapshot missing, or holding a different number of vectors *)
(* and chunk records, startup ends in the failure state and no request is  *)
(* ever served.                                                            *)
(***************************************************************************)
C7_BadSnapshotFailsFast ==
    (/\ service # "boot"
     /\ \/ ~snapshot_file.present
        \/ Len(snapshot_file.index) # Len(snapshot_file.metadata)) =>
        /\ service = "crashed"
        /\ \A r \in Requests : req[r].pc = "idle"

C9_EmptyRetrievalStillAnswers ==
    \A r \in Requests :
        (PastLookup(r) /\ RealPositions(req[r].I) = <<>>) =>
            /\ ~LookupRaised(r)
            /\ req[r].context_chunks = <<>>
            /\ req[r].pc = "done" => req[r].completion_calls >= 1
            /\ (req[r].pc = "done" /\ req[r].outcome.ok) =>
                  /\ req[r].response.kind = "answer"
                  /\ req[r].response.links = <<>>

(***************************************************************************)
(* C10: whatever requests ran and however their steps interleaved, the     *)
(* loaded snapshot is the one read at startup, a consistent snapshot is    *)
(* still consistent, and every request's retrieval result is the one the   *)
(* snapshot on its own determines.                                         *)
(***************************************************************************)
C10_SnapshotReadOnly ==
    service = "up" =>
        /\ index = snapshot_file.index
        /\ metadata = snapshot_file.metadata
        /\ Len(snapshot_file.index) = Len(snapshot_file.metadata) => Consistent
        /\ \A r \in Requests :
             /\ (InQuestions(r) /\ req[r].pc \in {"lookup", "complete", "done"}
                   /\ req[r].retrieval_fault = "none") =>
                    req[r].I = search(snapshot_file.index, encode(req[r].question), req[r].top_k)
             /\ PastLookup(r) =>
                    IF \A n \in DOMAIN req[r].I : InRange(snapshot_file.metadata, req[r].I[n])
                    THEN /\ ~LookupRaised(r)
                         /\ req[r].context_chunks = context_chunks_of(snapshot_file.metadata, req[r].I)
                         /\ req[r].urls = urls_of(snapshot_file.metadata, req[r].I)
                    ELSE LookupRaised(r)

C10_Witness ==
    /\ Consistent /\ Len(index) = 2
    /\ Answered("r1") /\ InQuestions("r1")
    /\ InQuestions("r2") /\ req["r2"].pc = "complete"
    /\ req["r1"].question # req["r2"].question

(***************************************************************************)
(* C11: the steps of one request come in the order embed, index search,    *)
(* metadata lookup, completion call, response; the completion API is not   *)
(* invoked before retrieval has finished, and a request whose retrieval    *)
(* raised EmbeddingError or IndexUnavailable never invokes it and ends in  *)
(* that error.                                                             *)
(***************************************************************************)
StepOrder == <<"embed", "search", "lookup", "completion", "response">>

StepNo(step) == CHOOSE n \in DOMAIN StepOrder : StepOrder[n] = step

C11_StepsInOrder ==
    \A r \in Requests :
        LET s == req[r].steps
        IN /\ \A m, n \in DOMAIN s : m < n => StepNo(s[m]) < StepNo(s[n])
           /\ \A n \in DOMAIN s :
                s[n] = "completion" => (n = 4 /\ SubSeq(s, 1, 3) = <<"embed", "search", "lookup">>)
           /\ req[r].completion_calls >= 1 => (\E n \in DOMAIN s : s[n] = "completion")
           /\ req[r].retrieval_fault # "none" =>
                 /\ req[r].completion_calls = 0
                 /\ \A n \in DOMAIN s : s[n] # "completion"
                 /\ req[r].pc = "done"
                 /\ req[r].response = Raised(req[r].retrieval_fault)

C11_Witness ==
    \E r \in Requests :
        /\ InQuestions(r)
        /\ req[r].retrieval_fault = "IndexUnavailable"
        /\ req[r].steps = <<"embed", "search", "response">>
        /\ req[r].pc = "done"

(***************************************************************************)
(* C12: scrape_topics_from_category always terminates and returns a count: *)
(* it requests at most 101 listing pages (0 to 100), stops at the first    *)
(* page without topics or the first error, returns as soon as the count of *)
(* scraped posts reaches a given limit, and so returns less than the limit *)
(* only when the pages ran out, the page cap was hit or a request failed.  *)
(***************************************************************************)
C12_ScrapeState ==
    /\ sc.requests <= PageCap + 1
    /\ sc.page <= PageCap + 1
    /\ (sc.pc \in {"fetch", "topics"} /\ sc.limit > 0) => sc.scraped_count < sc.limit
    /\ sc.pc = "returned" =>
          /\ sc.result = sc.scraped_count
          /\ sc.exit \in {"limit", "empty", "cap", "error"}
          /\ sc.exit = "limit" => (sc.limit > 0 /\ sc.result >= sc.limit)
          /\ (sc.limit > 0 /\ sc.result < sc.limit) => sc.exit \in {"empty", "cap", "error"}
          /\ sc.exit = "cap" => (sc.requests = PageCap + 1 /\ sc.page = PageCap + 1)
          /\ sc.exit # "cap" => sc.requests = sc.page + 1

\* what is left to do: pages up to the cap, and topics of the current page
C12_Remaining ==
    (PageCap + 1 - sc.page) * (MaxTopics + 1)
        - (IF sc.pc = "topics" THEN MaxTopics + 1 - sc.pending ELSE 0)

\* every step either returns or leaves strictly less to do
C12_StepAdvances == (sc'.pc = "returned") \/ (C12_Remaining' < C12_Remaining)

====
